---------------------------- MODULE Spec2Model ----------------------------
(***************************************************************************)
(* Model of the column-mapping engine (mappingEngine.js, the "ultra        *)
(* aggressive" version) and of the validation of its output.               *)
(*                                                                         *)
(* Names are TLA+ strings.  A confidence is an integer number of           *)
(* millionths: 1.0 is Pct(100) = 1000000.  Every product or quotient of    *)
(* the source is computed as one integer division, rounding towards zero.  *)
(***************************************************************************)
EXTENDS Integers, Sequences, FiniteSets, TLC

(***************************************************************************)
(* Bounds of the model.                                                    *)
(***************************************************************************)
MaxCols == 3

MaxFields == 3

(***************************************************************************)
(* Arithmetic helpers.                                                     *)
(***************************************************************************)
Pct(n) == n * 10000

Max(a, b) == IF a >= b THEN a ELSE b

Min(a, b) == IF a <= b THEN a ELSE b

Abs(a) == IF a < 0 THEN 0 - a ELSE a

(***************************************************************************)
(* JavaScript string primitives.                                           *)
(***************************************************************************)
Char(s, i) == SubSeq(s, i, i)

UpperCaseLetters == "ABCDEFGHIJKLMNOPQRSTUVWXYZ"

LowerCaseLetters == "abcdefghijklmnopqrstuvwxyz"

Letters ==
  {Char(LowerCaseLetters, i) : i \in 1..26}
    \cup {Char(UpperCaseLetters, i) : i \in 1..26}

Digits == {"0", "1", "2", "3", "4", "5", "6", "7", "8", "9"}

Whitespace == {" ", "\t"}

LowerChar(c) ==
  IF \E i \in 1..26 : Char(UpperCaseLetters, i) = c
  THEN Char(LowerCaseLetters, CHOOSE i \in 1..26 : Char(UpperCaseLetters, i) = c)
  ELSE c

RECURSIVE ToLowerCase(_)
ToLowerCase(s) ==
  IF Len(s) = 0 THEN s ELSE LowerChar(Char(s, 1)) \o ToLowerCase(Tail(s))

RECURSIVE TrimStart(_)
TrimStart(s) ==
  IF Len(s) > 0 /\ Char(s, 1) \in Whitespace THEN TrimStart(Tail(s)) ELSE s

RECURSIVE TrimEnd(_)
TrimEnd(s) ==
  IF Len(s) > 0 /\ Char(s, Len(s)) \in Whitespace
  THEN TrimEnd(SubSeq(s, 1, Len(s) - 1))
  ELSE s

Trim(s) == TrimEnd(TrimStart(s))

\* String.prototype.includes: the empty string is included in every string.
Includes(s, t) ==
  \E i \in 0..(Len(s) - Len(t)) : SubSeq(s, i + 1, i + Len(t)) = t

StartsWith(s, t) == Len(t) <= Len(s) /\ SubSeq(s, 1, Len(t)) = t

\* /a|b|c/.test(s) for a regular expression that is an alternation of literals.
TestAlternation(alternatives, s) == \E a \in alternatives : Includes(s, a)

\* /\d/.test(s)
TestDigit(s) == \E i \in 1..Len(s) : Char(s, i) \in Digits

\* /^[a-z]$/i.test(s)
TestSingleLetter(s) == Len(s) = 1 /\ s \in Letters

\* s.split(/[_\s-]+/).filter((w) => w.length > 0)
WordSeparators == {"_", "-"} \cup Whitespace

RECURSIVE SplitWords(_, _, _)
SplitWords(s, current, done) ==
  IF Len(s) = 0
  THEN IF Len(current) > 0 THEN Append(done, current) ELSE done
  ELSE IF Char(s, 1) \in WordSeparators
       THEN SplitWords(Tail(s), "",
                       IF Len(current) > 0 THEN Append(done, current) ELSE done)
       ELSE SplitWords(Tail(s), current \o Char(s, 1), done)

Words(s) == SplitWords(s, "", <<>>)

CharsOf(s) == {Char(s, i) : i \in 1..Len(s)}

CountChar(s, c) == Cardinality({i \in 1..Len(s) : Char(s, i) = c})

(***************************************************************************)
(* The scorer: calculateUltraAggressiveMatchScore and its heuristics.      *)
(***************************************************************************)
MaxOfSet(S) == IF S = {} THEN 0 ELSE CHOOSE x \in S : \A y \in S : y <= x

ultraSwimmingMaps ==
  << [filePattern |-> "name", qlikPatterns |->
       <<"name", "athlete", "swimmer", "participant", "competitor", "person",
         "first", "last">>],
     [filePattern |-> "time", qlikPatterns |->
       <<"time", "duration", "finish", "result", "performance", "seconds",
         "sec", "final">>],
     [filePattern |-> "place", qlikPatterns |->
       <<"place", "rank", "position", "finish", "pos", "placement", "order">>],
     [filePattern |-> "heat", qlikPatterns |->
       <<"heat", "session", "round", "group", "series", "set">>],
     [filePattern |-> "lane", qlikPatterns |->
       <<"lane", "position", "track", "channel", "line", "path">>],
     [filePattern |-> "event", qlikPatterns |->
       <<"event", "race", "competition", "contest", "category", "type">>],
     [filePattern |-> "team", qlikPatterns |->
       <<"team", "club", "country", "nation", "organization", "group", "squad">>],
     [filePattern |-> "distance", qlikPatterns |->
       <<"distance", "length", "meters", "yards", "m", "y", "dist">>],
     [filePattern |-> "reaction", qlikPatterns |->
       <<"reaction", "start", "response", "rt", "react", "begin">>],
     [filePattern |-> "lap", qlikPatterns |->
       <<"lap", "split", "intermediate", "segment", "partial">>],
     [filePattern |-> "dq", qlikPatterns |->
       <<"dq", "disqualified", "disqualification", "invalid", "false">>],
     [filePattern |-> "a", qlikPatterns |->
       <<"athlete", "name", "age">>],
     [filePattern |-> "b", qlikPatterns |->
       <<"best", "time", "result">>],
     [filePattern |-> "c", qlikPatterns |->
       <<"club", "team", "country">>],
     [filePattern |-> "d", qlikPatterns |->
       <<"distance", "dq", "duration">>],
     [filePattern |-> "e", qlikPatterns |->
       <<"event", "end">>],
     [filePattern |-> "f", qlikPatterns |->
       <<"finish", "final", "first">>],
     [filePattern |-> "g", qlikPatterns |->
       <<"group", "gender">>],
     [filePattern |-> "h", qlikPatterns |->
       <<"heat", "hour">>],
     [filePattern |-> "i", qlikPatterns |->
       <<"id", "index">>],
     [filePattern |-> "j", qlikPatterns |->
       <<"junior">>],
     [filePattern |-> "k", qlikPatterns |->
       <<"kilometer">>],
     [filePattern |-> "l", qlikPatterns |->
       <<"lane", "lap", "last">>],
     [filePattern |-> "m", qlikPatterns |->
       <<"meters", "minutes">>],
     [filePattern |-> "n", qlikPatterns |->
       <<"name", "number">>],
     [filePattern |-> "o", qlikPatterns |->
       <<"order">>],
     [filePattern |-> "p", qlikPatterns |->
       <<"place", "pool", "points">>],
     [filePattern |-> "q", qlikPatterns |->
       <<"qualify", "quarter">>],
     [filePattern |-> "r", qlikPatterns |->
       <<"rank", "reaction", "result">>],
     [filePattern |-> "s", qlikPatterns |->
       <<"swimmer", "stroke", "start">>],
     [filePattern |-> "t", qlikPatterns |->
       <<"time", "team">>],
     [filePattern |-> "u", qlikPatterns |->
       <<"under">>],
     [filePattern |-> "v", qlikPatterns |->
       <<"venue">>],
     [filePattern |-> "w", qlikPatterns |->
       <<"water", "win">>],
     [filePattern |-> "x", qlikPatterns |->
       <<"extra">>],
     [filePattern |-> "y", qlikPatterns |->
       <<"year", "yards">>],
     [filePattern |-> "z", qlikPatterns |->
       <<"zone">>] >>

calculateUltraSwimmingMatch(fileName, qlikName) ==
  LET maps == ultraSwimmingMaps
      direct == \E i \in 1..Len(maps) :
                  /\ Includes(fileName, maps[i].filePattern)
                  /\ \E k \in 1..Len(maps[i].qlikPatterns) :
                       Includes(qlikName, maps[i].qlikPatterns[k])
      reverse == \E i \in 1..Len(maps) :
                   \E k \in 1..Len(maps[i].qlikPatterns) :
                     /\ Includes(fileName, maps[i].qlikPatterns[k])
                     /\ Includes(qlikName, maps[i].filePattern)
  IN  Max(IF direct THEN Pct(90) ELSE 0, IF reverse THEN Pct(85) ELSE 0)

countCommonCharacters(str1, str2) ==
  Cardinality({i \in 1..Len(str1) : Char(str1, i) \in CharsOf(str2)})

calculateUltraWordMatch(fileName, qlikName) ==
  LET fileWords == Words(fileName)
      qlikWords == Words(qlikName)
      pair(fileWord, qlikWord) ==
        IF fileWord = qlikWord THEN Pct(80)
        ELSE IF Includes(fileWord, qlikWord) \/ Includes(qlikWord, fileWord)
             THEN Pct(60)
        ELSE IF /\ Len(fileWord) > 2 /\ Len(qlikWord) > 2
                /\ Char(fileWord, 1) = Char(qlikWord, 1)
                /\ Char(fileWord, 2) = Char(qlikWord, 2)
             THEN Pct(40)
        ELSE 0
  IN  MaxOfSet({pair(fileWords[i], qlikWords[k]) :
                  i \in 1..Len(fileWords), k \in 1..Len(qlikWords)})

\* The three assignments to score follow one another: the last one that
\* applies is the one returned.
calculatePositionalMatch(fileName, qlikName) ==
  IF Len(fileName) < 5 /\ Includes(qlikName, "name") THEN Pct(40)
  ELSE IF /\ Len(fileName) <= 3
          /\ (StartsWith(qlikName, fileName) \/ Includes(qlikName, fileName))
       THEN Pct(60)
  ELSE IF TestDigit(fileName) /\ Includes(qlikName, "time") THEN Pct(50)
  ELSE 0

SoundexClass(c) ==
  CASE c \in {"a", "e", "i", "o", "u"} -> ""
    [] c \in {"b", "p"} -> "1"
    [] c \in {"c", "g", "j", "k", "q", "s", "x", "z"} -> "2"
    [] c \in {"d", "t"} -> "3"
    [] c = "l" -> "4"
    [] c \in {"m", "n"} -> "5"
    [] c = "r" -> "6"
    [] c \in {"f", "v", "w"} -> "7"
    [] c \in {"h", "y"} -> "8"
    [] OTHER -> c

RECURSIVE SoundexReplace(_)
SoundexReplace(s) ==
  IF Len(s) = 0 THEN s
  ELSE SoundexClass(LowerChar(Char(s, 1))) \o SoundexReplace(Tail(s))

advancedSoundex(str) ==
  LET replaced == SoundexReplace(str)
  IN  SubSeq(replaced, 1, Min(6, Len(replaced)))

calculateAdvancedPhoneticMatch(fileName, qlikName) ==
  LET fileSoundex == advancedSoundex(fileName)
      qlikSoundex == advancedSoundex(qlikName)
      minLength == Min(Len(fileSoundex), Len(qlikSoundex))
      matches == Cardinality({i \in 1..minLength :
                                Char(fileSoundex, i) = Char(qlikSoundex, i)})
  IN  IF fileSoundex = qlikSoundex /\ Len(fileSoundex) > 2 THEN Pct(70)
      ELSE IF /\ Len(fileSoundex) > 3 /\ Len(qlikSoundex) > 3
              /\ 10 * matches > 6 * minLength
           THEN Pct(50)
      ELSE 0

\* similarity is the sum of minCount / maxCount over all characters; it is
\* kept here as a number of sixtieths (every count of the model divides 60).
FrequencyRatio(fileLower, qlikLower, c) ==
  (60 * Min(CountChar(fileLower, c), CountChar(qlikLower, c)))
    \div Max(CountChar(fileLower, c), CountChar(qlikLower, c))

RECURSIVE FrequencySimilarity(_, _, _)
FrequencySimilarity(fileLower, qlikLower, chars) ==
  IF chars = {} THEN 0
  ELSE LET c == CHOOSE x \in chars : TRUE
       IN  FrequencyRatio(fileLower, qlikLower, c)
             + FrequencySimilarity(fileLower, qlikLower, chars \ {c})

calculateCharacterFrequencyMatch(fileName, qlikName) ==
  LET fileLower == ToLowerCase(fileName)
      qlikLower == ToLowerCase(qlikName)
      allChars == CharsOf(fileLower) \cup CharsOf(qlikLower)
      similarity == FrequencySimilarity(fileLower, qlikLower, allChars)
      size == Cardinality(allChars)
  IN  IF size > 0 /\ 10 * similarity > 7 * 60 * size
      THEN (similarity * Pct(65)) \div (60 * size)
      ELSE 0

calculateLengthSimilarity(fileName, qlikName) ==
  LET lengthDiff == Abs(Len(fileName) - Len(qlikName))
      maxLength == Max(Len(fileName), Len(qlikName))
  IN  IF maxLength = 0 THEN 0
      ELSE IF 10 * (maxLength - lengthDiff) > 8 * maxLength
           THEN ((maxLength - lengthDiff) * Pct(60)) \div maxLength
      ELSE 0

Min3(a, b, c) == Min(a, Min(b, c))

\* One row of the matrix: row[j + 1] is matrix[i][j].
RECURSIVE LevenshteinRow(_, _, _, _, _)
LevenshteinRow(str1, str2, i, previous, row) ==
  LET j == Len(row)
  IN  IF j > Len(str1) THEN row
      ELSE LevenshteinRow(str1, str2, i, previous,
             Append(row,
               IF Char(str2, i) = Char(str1, j)
               THEN previous[j]
               ELSE Min3(previous[j] + 1, row[j] + 1, previous[j + 1] + 1)))

RECURSIVE LevenshteinRows(_, _, _, _)
LevenshteinRows(str1, str2, i, previous) ==
  IF i > Len(str2) THEN previous[Len(str1) + 1]
  ELSE LevenshteinRows(str1, str2, i + 1,
                       LevenshteinRow(str1, str2, i, previous, <<i>>))

levenshteinDistance(str1, str2) ==
  LevenshteinRows(str1, str2, 1, [j \in 1..(Len(str1) + 1) |-> j - 1])

calculateUltraFuzzyScore(str1, str2) ==
  IF Len(str1) = 0 \/ Len(str2) = 0 THEN 0
  ELSE IF str1 = str2 THEN Pct(100)
  ELSE LET longer == IF Len(str1) > Len(str2) THEN str1 ELSE str2
           shorter == IF Len(str1) > Len(str2) THEN str2 ELSE str1
           distance == levenshteinDistance(longer, shorter)
       IN  Min(((Len(longer) - distance) * Pct(130)) \div Len(longer), Pct(100))

NoType == "undefined"

compatibleMap ==
  [text |-> {"text", "categorical", "dimension", "string", "numeric"},
   numeric |-> {"numeric", "measure", "number", "integer", "float", "text"},
   swim_time |-> {"numeric", "time", "measure", "text", "dimension"},
   time |-> {"numeric", "text", "measure", "time", "dimension"},
   date |-> {"text", "date", "timestamp", "dimension"},
   categorical |-> {"text", "dimension", "categorical", "numeric"}]

\* The compatibility factor, in percent.
getUltraTypeCompatibility(fileType, qlikType) ==
  IF fileType = qlikType THEN 100
  ELSE IF fileType \in DOMAIN compatibleMap /\ qlikType \in compatibleMap[fileType]
       THEN 98
  ELSE 85

ultraBoosts ==
  << [filePattern |-> {"time", "duration", "sec"},
      qlikPattern |-> {"time", "duration", "result"}, boost |-> Pct(15)],
     [filePattern |-> {"name", "athlete"},
      qlikPattern |-> {"name", "athlete", "swimmer"}, boost |-> Pct(15)],
     [filePattern |-> {"place", "rank"},
      qlikPattern |-> {"place", "rank", "position"}, boost |-> Pct(15)],
     [filePattern |-> {"heat"},
      qlikPattern |-> {"heat", "round", "session"}, boost |-> Pct(15)],
     [filePattern |-> {"lane"},
      qlikPattern |-> {"lane", "position", "track"}, boost |-> Pct(15)],
     [filePattern |-> {"event", "race"},
      qlikPattern |-> {"event", "race", "competition"}, boost |-> Pct(15)],
     [filePattern |-> {"team", "club"},
      qlikPattern |-> {"team", "club", "country"}, boost |-> Pct(15)],
     [filePattern |-> {"reaction", "start"},
      qlikPattern |-> {"reaction", "start"}, boost |-> Pct(15)],
     [filePattern |-> {"distance", "dist"},
      qlikPattern |-> {"distance", "length", "meters"}, boost |-> Pct(15)],
     [filePattern |-> {"dq"},
      qlikPattern |-> {"dq", "disqualified"}, boost |-> Pct(15)] >>

RECURSIVE SumBoosts(_)
SumBoosts(hits) ==
  IF hits = {} THEN 0
  ELSE LET i == CHOOSE x \in hits : TRUE
       IN  ultraBoosts[i].boost + SumBoosts(hits \ {i})

applyUltraSwimmingBoosts(fileName, qlikName, currentConfidence) ==
  LET hits == {i \in 1..Len(ultraBoosts) :
                 /\ TestAlternation(ultraBoosts[i].filePattern, fileName)
                 /\ TestAlternation(ultraBoosts[i].qlikPattern, qlikName)}
      emergency == TestSingleLetter(fileName) /\ Len(qlikName) > 0
      boostedConfidence ==
        currentConfidence + SumBoosts(hits)
          + (IF emergency THEN Pct(10) ELSE 0)
  IN  Min(boostedConfidence, Pct(100))

Score(confidence, matchType, reason) ==
  [confidence |-> confidence, matchType |-> matchType, reason |-> reason]

\* if (score > bestMatch.confidence) bestMatch = {...}
Better(bestMatch, confidence, matchType, reason) ==
  IF confidence > bestMatch.confidence
  THEN Score(confidence, matchType, reason)
  ELSE bestMatch

\* Step 2: either name contains the other.
ContainsMatch(bestMatch, fileName, qlikName) ==
  IF Includes(fileName, qlikName) \/ Includes(qlikName, fileName)
  THEN Score(Pct(95), "contains", "Name contains match")
  ELSE bestMatch

\* Step 4: two short names that share a character.  The new confidence is
\* the maximum with the running one, and the kind is overwritten either way.
ShortNameMatch(bestMatch, fileName, qlikName) ==
  LET commonChars == countCommonCharacters(fileName, qlikName)
  IN  IF Len(fileName) <= 3 /\ Len(qlikName) <= 3 /\ commonChars > 0
      THEN Score(Max(bestMatch.confidence, Pct(60) + commonChars * Pct(25)),
                 "short_name_match", "Short name character match")
      ELSE bestMatch

\* Steps 2 to 10: each step sees the running score of the steps before it.
ScoreAfterStrategies(fileName, qlikName) ==
  LET s1 == Score(0, "none", "No match")
      s2 == ContainsMatch(s1, fileName, qlikName)
      s3 == Better(s2, calculateUltraSwimmingMatch(fileName, qlikName),
                   "ultra_swimming_domain", "Ultra swimming domain match")
      s4 == ShortNameMatch(s3, fileName, qlikName)
      s5 == Better(s4, calculateUltraWordMatch(fileName, qlikName),
                   "ultra_word_match", "Ultra word boundary match")
      s6 == Better(s5, calculatePositionalMatch(fileName, qlikName),
                   "positional", "Positional context match")
      s7 == Better(s6, calculateAdvancedPhoneticMatch(fileName, qlikName),
                   "advanced_phonetic", "Advanced phonetic similarity")
      s8 == Better(s7, calculateCharacterFrequencyMatch(fileName, qlikName),
                   "character_frequency", "Character frequency match")
      s9 == Better(s8, calculateLengthSimilarity(fileName, qlikName),
                   "length_similarity", "Length-based similarity")
  IN  Better(s9, calculateUltraFuzzyScore(fileName, qlikName),
             "ultra_fuzzy", "Ultra aggressive fuzzy match")

\* Step 12: any confidence above 0.05 is raised to at least 0.25.
MinimumConfidenceFloor(confidence) ==
  IF confidence > Pct(5) THEN Max(confidence, Pct(25)) ELSE confidence

\* Steps 11 to 14 and the final cap, on the trimmed lower-case names.
ScoreOfNames(fileName, qlikName, typeCompatibility) ==
  LET bestMatch == ScoreAfterStrategies(fileName, qlikName)
      confidence ==
        applyUltraSwimmingBoosts(fileName, qlikName,
          MinimumConfidenceFloor(
            (bestMatch.confidence * typeCompatibility) \div 100))
  IN  IF confidence < Pct(10) /\ Len(fileName) > 0 /\ Len(qlikName) > 0
      THEN Score(Pct(15), "desperation_match",
                 "Desperation matching - better than nothing")
      ELSE Score(Min(confidence, Pct(100)), bestMatch.matchType,
                 bestMatch.reason)

\* A faulty variant of the scorer: step 1, the exact match, is left out.
ScoreWithoutExactStep(fileName, qlikName, typeCompatibility) ==
  ScoreOfNames(fileName, qlikName, typeCompatibility)

\* Step 1 (exact match of the trimmed lower-case names) and the rest.
NormalizedScore(fileName, qlikName, typeCompatibility) ==
  IF fileName = qlikName
  THEN Score(Pct(100), "exact", "Exact name match")
  ELSE ScoreOfNames(fileName, qlikName, typeCompatibility)

calculateUltraAggressiveMatchScore(fileColumn, qlikField) ==
  NormalizedScore(Trim(ToLowerCase(fileColumn.name)),
                  Trim(ToLowerCase(qlikField.name)),
                  getUltraTypeCompatibility(fileColumn.type, qlikField.type))

(***************************************************************************)
(* JavaScript values.  An argument is an array of records, or null,        *)
(* undefined, or some value that is not an array (and has no map method).  *)
(***************************************************************************)
Array(items) == [kind |-> "array", items |-> items]

Null == [kind |-> "null"]

Undefined == [kind |-> "undefined"]

NotAnArray == [kind |-> "object"]

IsArray(v) == v.kind = "array"

\* !v : null and undefined are falsy, arrays and objects are truthy.
Falsy(v) == v.kind \in {"null", "undefined"}

\* v?.map(...) : undefined for null and undefined, the mapped array for an
\* array, and a TypeError (v.map is not a function) for any other value.
OptionalMapThrows(v) == ~Falsy(v) /\ ~IsArray(v)

(***************************************************************************)
(* An object used as a map from column names to entries: a sequence of     *)
(* entries in insertion order, each carrying its own key.                  *)
(***************************************************************************)
EmptyObject == <<>>

Keys(obj) == {obj[i].key : i \in 1..Len(obj)}

HasOwn(obj, k) == k \in Keys(obj)

Get(obj, k) == obj[CHOOSE i \in 1..Len(obj) : obj[i].key = k]

\* obj[k] = entry: an existing key keeps its position, a new key goes last.
Put(obj, k, entry) ==
  LET e == [entry EXCEPT !.key = k]
  IN  IF HasOwn(obj, k)
      THEN [i \in 1..Len(obj) |-> IF obj[i].key = k THEN e ELSE obj[i]]
      ELSE Append(obj, e)

\* The properties every object literal inherits from Object.prototype whose
\* value is truthy (restricted to function-valued ones).
ObjectPrototypeProperties ==
  {"constructor", "toString", "toLocaleString", "valueOf", "hasOwnProperty",
   "isPrototypeOf", "propertyIsEnumerable"}

\* if (obj[k]) ... : an own entry is an object, hence truthy; a key the
\* object does not own is looked up on Object.prototype.
TruthyProperty(obj, k) == HasOwn(obj, k) \/ k \in ObjectPrototypeProperties

NullField == [kind |-> "null"]

IsMapped(entry) == entry.qlikField # NullField

(***************************************************************************)
(* Inputs of the model.                                                    *)
(***************************************************************************)
SourceNames ==
  {"time", "lap_time", "name", "athlete_name", "place", "xyz123", "constructor"}

TargetNames == {"time", "name", "place", "qrs789"}

ColumnTypes == {NoType, "text"}

FieldTypes == {NoType}

DistinctSequences(S, n) ==
  UNION {{s \in [1..k -> S] : \A i, j \in 1..k : i # j => s[i] # s[j]} :
           k \in 0..n}

SourceColumn(name, type) == [name |-> name, type |-> type]

TargetField(name, type) == [name |-> name, type |-> type]

ColumnLists ==
  {[i \in DOMAIN names |-> SourceColumn(names[i], type)] :
     names \in DistinctSequences(SourceNames, MaxCols), type \in ColumnTypes}

FieldLists ==
  {[i \in DOMAIN names |-> TargetField(names[i], type)] :
     names \in DistinctSequences(TargetNames, MaxFields), type \in FieldTypes}

Malformed == {Null, Undefined, NotAnArray}

\* Inputs with more fields than columns: up to WideCols columns and up to
\* WideFields fields, so that a column has more runner-up candidates than an
\* entry stores.
WideCols == 2

WideFields == 5

WideSourceNames == {"time", "lap_time", "xyz123"}

WideTargetNames == TargetNames \cup {"lap_time"}

WideColumnLists ==
  {[i \in DOMAIN names |-> SourceColumn(names[i], NoType)] :
     names \in DistinctSequences(WideSourceNames, WideCols)}

WideFieldLists ==
  {[i \in DOMAIN names |-> TargetField(names[i], NoType)] :
     names \in DistinctSequences(WideTargetNames, WideFields)}

(***************************************************************************)
(* Candidate generation.                                                   *)
(***************************************************************************)
\* A faulty variant of the insertion: the new element goes before the
\* elements of equal confidence, which reverses the order of equal elements.
RECURSIVE InsertBeforeEqual(_, _)
InsertBeforeEqual(sorted, m) ==
  IF Len(sorted) = 0 THEN <<m>>
  ELSE IF sorted[Len(sorted)].confidence > m.confidence
       THEN Append(sorted, m)
       ELSE Append(InsertBeforeEqual(SubSeq(sorted, 1, Len(sorted) - 1), m),
                   sorted[Len(sorted)])

\* Array.prototype.sort((a, b) => b.confidence - a.confidence): stable,
\* descending by confidence.
RECURSIVE InsertByConfidence(_, _)
InsertByConfidence(sorted, m) ==
  IF Len(sorted) = 0 THEN <<m>>
  ELSE IF sorted[Len(sorted)].confidence >= m.confidence
       THEN Append(sorted, m)
       ELSE Append(InsertByConfidence(SubSeq(sorted, 1, Len(sorted) - 1), m),
                   sorted[Len(sorted)])

RECURSIVE SortFrom(_, _, _)
SortFrom(items, i, sorted) ==
  IF i > Len(items) THEN sorted
  ELSE SortFrom(items, i + 1, InsertByConfidence(sorted, items[i]))

SortByConfidenceDescending(items) == SortFrom(items, 1, <<>>)

Match(qlikField, score) ==
  [field |-> qlikField, confidence |-> score.confidence,
   matchType |-> score.matchType, reason |-> score.reason]

\* The scorer is a pure function of the two records: its value on every
\* pair of the model's inputs is computed once and kept as an explicit table.
ScoredPairs ==
  [name : SourceNames, type : ColumnTypes]
    \X [name : WideTargetNames, type : FieldTypes]

\* The function f as an explicit table: f @@ <<>> has the domain and the
\* values of f, each value computed once.
Tabulate(f) == f @@ <<>>

ScoreTable ==
  Tabulate([p \in ScoredPairs |->
              calculateUltraAggressiveMatchScore(p[1], p[2])])

MatchScore(fileColumn, qlikField) == ScoreTable[<<fileColumn, qlikField>>]

findBestMatchesUltraAggressive(fileColumn, qlikFields) ==
  SortByConfidenceDescending(
    SelectSeq([i \in 1..Len(qlikFields) |->
                 Match(qlikFields[i], MatchScore(fileColumn, qlikFields[i]))],
              LAMBDA m : m.confidence > Pct(1)))

\* A faulty variant of slice: the end bound is ignored.
SliceWithoutEnd(s, from, to) == SubSeq(s, from + 1, Len(s))

\* array.slice(from, to) with 0-based bounds.
Slice(s, from, to) == SubSeq(s, from + 1, Min(to, Len(s)))

(***************************************************************************)
(* generateMappingSuggestions: the three phases, one column at a time.     *)
(* run is [suggestions, used]: the entries committed so far and the        *)
(* consumed target field names.                                            *)
(***************************************************************************)
Entry(key, qlikField, confidence, matchType, alternatives, reason) ==
  [key |-> key, qlikField |-> qlikField, confidence |-> confidence,
   matchType |-> matchType, alternatives |-> alternatives, reason |-> reason]

\* A faulty variant of AvailableMatches: consumed fields are not filtered out.
MatchesIgnoringConsumed(fileCol, qlikFields, used) ==
  findBestMatchesUltraAggressive(fileCol, qlikFields)

AvailableMatches(fileCol, qlikFields, used) ==
  SelectSeq(findBestMatchesUltraAggressive(fileCol, qlikFields),
            LAMBDA m : m.field.name \notin used)

\* The body of the Phase 1 callback once availableMatches is computed.
Phase1Commit(run, fileCol, availableMatches) ==
  LET topMatch == availableMatches[1]
  IN  IF Len(availableMatches) > 0 /\ topMatch.confidence > Pct(50)
      THEN [suggestions |->
              Put(run.suggestions, fileCol.name,
                  Entry(fileCol.name, topMatch.field, topMatch.confidence,
                        topMatch.matchType, Slice(availableMatches, 1, 4),
                        topMatch.reason)),
            used |-> run.used \cup {topMatch.field.name}]
      ELSE run

Phase1Column(run, fileCol, qlikFields) ==
  Phase1Commit(run, fileCol, AvailableMatches(fileCol, qlikFields, run.used))

\* A faulty variant of the Phase 2 commit: the confidence of the candidate
\* is kept as it is, without the floor of 0.35.
Phase2CommitWithoutFloor(run, fileCol, availableMatches) ==
  LET topMatch == availableMatches[1]
  IN  IF Len(availableMatches) > 0 /\ topMatch.confidence > Pct(20)
      THEN [suggestions |->
              Put(run.suggestions, fileCol.name,
                  Entry(fileCol.name, topMatch.field, topMatch.confidence,
                        topMatch.matchType, Slice(availableMatches, 1, 4),
                        topMatch.reason \o " (Phase 2 mapping)")),
            used |-> run.used \cup {topMatch.field.name}]
      ELSE run

\* The body of the Phase 2 callback once availableMatches is computed.
Phase2Commit(run, fileCol, availableMatches) ==
  LET topMatch == availableMatches[1]
  IN  IF Len(availableMatches) > 0 /\ topMatch.confidence > Pct(20)
      THEN [suggestions |->
              Put(run.suggestions, fileCol.name,
                  Entry(fileCol.name, topMatch.field,
                        Max(topMatch.confidence, Pct(35)),
                        topMatch.matchType, Slice(availableMatches, 1, 4),
                        topMatch.reason \o " (Phase 2 mapping)")),
            used |-> run.used \cup {topMatch.field.name}]
      ELSE run

Phase2Column(run, fileCol, qlikFields) ==
  IF TruthyProperty(run.suggestions, fileCol.name) THEN run
  ELSE Phase2Commit(run, fileCol,
                    AvailableMatches(fileCol, qlikFields, run.used))

priorities ==
  << [pattern |-> {"time", "duration", "sec"},
      preferredFields |-> <<"time", "lap_time", "reaction_time", "finish_time">>],
     [pattern |-> {"name", "athlete"},
      preferredFields |-> <<"name", "athlete", "swimmer">>],
     [pattern |-> {"place", "rank"},
      preferredFields |-> <<"place", "rank">>],
     [pattern |-> {"team", "club"},
      preferredFields |-> <<"team", "club", "country">>],
     [pattern |-> {"event", "race"},
      preferredFields |-> <<"event", "race", "competition">>],
     [pattern |-> {"heat"},
      preferredFields |-> <<"heat">>],
     [pattern |-> {"lane"},
      preferredFields |-> <<"lane">>],
     [pattern |-> {"distance"},
      preferredFields |-> <<"distance">>],
     [pattern |-> {"dq"},
      preferredFields |-> <<"dq">>] >>

\* The first available field whose name includes a preferred name of the
\* first priority row (and, in it, the first preferred name) that finds one.
RECURSIVE FindPreferred(_, _, _, _)
FindPreferred(fileName, availableFields, p, k) ==
  IF p > Len(priorities) THEN availableFields[1]
  ELSE IF \/ ~TestAlternation(priorities[p].pattern, fileName)
          \/ k > Len(priorities[p].preferredFields)
       THEN FindPreferred(fileName, availableFields, p + 1, 1)
  ELSE LET preferredField == priorities[p].preferredFields[k]
           found == SelectSeq(availableFields,
                      LAMBDA field :
                        Includes(ToLowerCase(field.name), preferredField))
       IN  IF Len(found) > 0 THEN found[1]
           ELSE FindPreferred(fileName, availableFields, p, k + 1)

selectBestRemainingField(fileColumn, availableFields) ==
  FindPreferred(ToLowerCase(fileColumn.name), availableFields, 1, 1)

\* A faulty variant of the fallback: it carries the confidence of a forced
\* mapping.
FallbackWithForcedConfidence(fileColumn) ==
  Entry(fileColumn.name, NullField, Pct(40), "ultra_aggressive_null", <<>>,
        "No available Qlik fields remaining - all fields have been assigned")

\* A faulty variant of the fallback: confidence 0, as in the first version
\* of the engine.
FallbackWithZeroConfidence(fileColumn) ==
  Entry(fileColumn.name, NullField, 0, "ultra_aggressive_null", <<>>,
        "No available Qlik fields remaining - all fields have been assigned")

createUltraAggressiveFallback(fileColumn) ==
  Entry(fileColumn.name, NullField, Pct(10), "ultra_aggressive_null", <<>>,
        "No available Qlik fields remaining - all fields have been assigned")

Phase3Column(run, fileCol, qlikFields) ==
  IF TruthyProperty(run.suggestions, fileCol.name) THEN run
  ELSE
    LET availableFields ==
          SelectSeq(qlikFields, LAMBDA field : field.name \notin run.used)
    IN  IF Len(availableFields) > 0
        THEN LET selectedField ==
                   selectBestRemainingField(fileCol, availableFields)
             IN  [suggestions |->
                    Put(run.suggestions, fileCol.name,
                        Entry(fileCol.name, selectedField, Pct(40),
                              "ultra_aggressive_force", <<>>,
                              "Ultra aggressive force mapping - field assigned based on position and type")),
                  used |-> run.used \cup {selectedField.name}]
        ELSE [suggestions |->
                Put(run.suggestions, fileCol.name,
                    createUltraAggressiveFallback(fileCol)),
              used |-> run.used]

(***************************************************************************)
(* validateMappingSuggestions.                                             *)
(***************************************************************************)
\* suggestion.alternatives?.filter(...) || [] : an entry made by a manual
\* selection has no alternatives property.
FreeAlternatives(suggestion, usedFields) ==
  IF "alternatives" \in DOMAIN suggestion
  THEN SelectSeq(suggestion.alternatives,
                 LAMBDA alt : alt.field.name \notin usedFields)
  ELSE <<>>

\* A faulty variant of the callback: an entry in conflict with no free
\* alternative loses its target, as in the first version of the validator.
ValidateEntryRemovingMapping(state, suggestion) ==
  LET fieldName == suggestion.qlikField.name
      alternatives == FreeAlternatives(suggestion, state.usedFields)
  IN  IF fieldName \in state.usedFields
      THEN IF Len(alternatives) > 0
           THEN [validated |->
                   Put(state.validated, suggestion.key,
                       [suggestion EXCEPT
                          !.qlikField = alternatives[1].field,
                          !.confidence =
                             Max((alternatives[1].confidence * 9) \div 10, Pct(30)),
                          !.reason = "Alternative mapping (conflict resolved)"]),
                 usedFields |-> state.usedFields \cup {alternatives[1].field.name}]
           ELSE [validated |->
                   Put(state.validated, suggestion.key,
                       [suggestion EXCEPT
                          !.qlikField = NullField,
                          !.confidence = 0,
                          !.reason = "Field already mapped to another column"]),
                 usedFields |-> state.usedFields]
      ELSE [validated |-> state.validated,
            usedFields |-> state.usedFields \cup {fieldName}]

ValidateEntry(state, suggestion) ==
  LET fieldName == suggestion.qlikField.name
      alternatives == FreeAlternatives(suggestion, state.usedFields)
  IN  IF fieldName \in state.usedFields
      THEN IF Len(alternatives) > 0
           THEN [validated |->
                   Put(state.validated, suggestion.key,
                       [suggestion EXCEPT
                          !.qlikField = alternatives[1].field,
                          !.confidence =
                             Max((alternatives[1].confidence * 9) \div 10, Pct(30)),
                          !.reason = "Alternative mapping (conflict resolved)"]),
                 usedFields |-> state.usedFields \cup {alternatives[1].field.name}]
           ELSE [validated |->
                   Put(state.validated, suggestion.key,
                       [suggestion EXCEPT
                          !.confidence =
                             Max((suggestion.confidence * 7) \div 10, Pct(25)),
                          !.reason = "Conflict detected - shared field assignment"]),
                 usedFields |-> state.usedFields]
      ELSE [validated |-> state.validated,
            usedFields |-> state.usedFields \cup {fieldName}]

RECURSIVE ValidateFrom(_, _, _)
ValidateFrom(sortedEntries, i, state) ==
  IF i > Len(sortedEntries) THEN state.validated
  ELSE ValidateFrom(sortedEntries, i + 1, ValidateEntry(state, sortedEntries[i]))

validateMappingSuggestions(suggestions) ==
  LET sortedEntries ==
        SortByConfidenceDescending(SelectSeq(suggestions, IsMapped))
  IN  ValidateFrom(sortedEntries, 1,
                   [validated |-> suggestions, usedFields |-> {}])

(***************************************************************************)
(* generateMappingSummary.                                                 *)
(***************************************************************************)
EmptySummary(suggestions) ==
  [totalColumns |-> Cardinality(Keys(suggestions)),
   mappedColumns |-> 0,
   unmappedColumns |-> 0,
   highConfidenceColumns |-> 0,
   mediumConfidenceColumns |-> 0,
   lowConfidenceColumns |-> 0,
   averageConfidence |-> 0]

\* The callback of the forEach: the counters after one more suggestion.
CountSuggestion(summary, suggestion) ==
  IF IsMapped(suggestion) /\ suggestion.confidence > 0
  THEN IF suggestion.confidence >= Pct(60)
       THEN [summary EXCEPT !.mappedColumns = @ + 1,
                            !.highConfidenceColumns = @ + 1]
       ELSE IF suggestion.confidence >= Pct(30)
            THEN [summary EXCEPT !.mappedColumns = @ + 1,
                                 !.mediumConfidenceColumns = @ + 1]
            ELSE [summary EXCEPT !.mappedColumns = @ + 1,
                                 !.lowConfidenceColumns = @ + 1]
  ELSE [summary EXCEPT !.unmappedColumns = @ + 1]

\* A faulty variant of the sum: the confidence of every entry is added, the
\* placeholder confidence of an entry without a target included.
AddEveryConfidence(totalConfidence, suggestion) ==
  totalConfidence + suggestion.confidence

AddConfidence(totalConfidence, suggestion) ==
  IF IsMapped(suggestion) /\ suggestion.confidence > 0
  THEN totalConfidence + suggestion.confidence
  ELSE totalConfidence

\* A faulty variant of the average: the division is not guarded, and 0 / 0
\* is NaN, which is no confidence; a negative number stands for it.
UnguardedAverage(summary, totalConfidence) ==
  IF summary.mappedColumns > 0
  THEN totalConfidence \div summary.mappedColumns
  ELSE 0 - 1

AverageConfidence(summary, totalConfidence) ==
  IF summary.mappedColumns > 0
  THEN totalConfidence \div summary.mappedColumns
  ELSE 0

RECURSIVE SummarizeFrom(_, _, _, _)
SummarizeFrom(values, i, summary, totalConfidence) ==
  IF i > Len(values)
  THEN [summary EXCEPT
          !.averageConfidence = AverageConfidence(summary, totalConfidence)]
  ELSE SummarizeFrom(values, i + 1, CountSuggestion(summary, values[i]),
                     AddConfidence(totalConfidence, values[i]))

generateMappingSummary(suggestions) ==
  SummarizeFrom(suggestions, 1, EmptySummary(suggestions), 0)

(***************************************************************************)
(* The state machine: one call of generateMappingSuggestions, followed by  *)
(* validateMappingSuggestions or by generateMappingSummary on what it      *)
(* returned.                                                               *)
(***************************************************************************)
VARIABLES fileColumns, qlikFields, pc, idx, mappingSuggestions,
          usedQlikFields, outcome, suggestions, validated, revalidated,
          summarized, summary, scorer, mappings, columnMappings,
          validationResult

vars == <<fileColumns, qlikFields, pc, idx, mappingSuggestions,
          usedQlikFields, outcome, suggestions, validated, revalidated,
          summarized, summary, scorer, mappings, columnMappings,
          validationResult>>

\* The state of the column mapper and of the table step.
mapperVars == <<mappings, columnMappings, validationResult>>

\* Before the mapping step: useState(currentMappings || {}) with no current
\* mappings, the parent's useState({}) and the table's useState(null).
MapperUnmounted ==
  /\ mappings = EmptyObject
  /\ columnMappings = EmptyObject
  /\ validationResult = Null

NoSummary == [totalColumns |-> -1]

Idle == [called |-> FALSE]

Pending == [kind |-> "pending"]

Returned(value) == [kind |-> "returned", value |-> value]

Thrown == [kind |-> "thrown"]

\* A faulty variant of the catch handler: the error is thrown again.
Rethrow == Thrown

\* catch (error) { console.error(...); return {}; }
CatchHandler == Returned(EmptyObject)

Init ==
  /\ fileColumns \in {Array(columns) : columns \in ColumnLists} \cup Malformed
  /\ qlikFields \in {Array(fields) : fields \in FieldLists} \cup Malformed
  /\ pc = "call"
  /\ idx = 1
  /\ mappingSuggestions = EmptyObject
  /\ usedQlikFields = {}
  /\ outcome = Pending
  /\ suggestions = EmptyObject
  /\ validated = EmptyObject
  /\ revalidated = EmptyObject
  /\ summarized = EmptyObject
  /\ summary = NoSummary
  /\ scorer = Idle
  /\ MapperUnmounted

\* Entry of generateMappingSuggestions: the two console.log calls, the two
\* guards, and the declarations of the map and of the consumed-fields set.
Call ==
  /\ pc = "call"
  /\ IF OptionalMapThrows(fileColumns) \/ OptionalMapThrows(qlikFields)
     THEN /\ outcome' = CatchHandler
          /\ pc' = "done"
     ELSE IF \/ Falsy(fileColumns) \/ ~IsArray(fileColumns)
             \/ Falsy(qlikFields) \/ ~IsArray(qlikFields)
          THEN /\ outcome' = Returned(EmptyObject)
               /\ pc' = "done"
          ELSE /\ outcome' = outcome
               /\ pc' = IF Len(fileColumns.items) = 0 THEN "return" ELSE "phase1"
  /\ idx' = 1
  /\ mappingSuggestions' = EmptyObject
  /\ usedQlikFields' = {}
  /\ UNCHANGED <<mapperVars, fileColumns, qlikFields, suggestions, validated, revalidated,
                 summarized, summary, scorer>>

Run == [suggestions |-> mappingSuggestions, used |-> usedQlikFields]

\* The callback's writes to the map and to the consumed-fields set.
Commit(run) ==
  /\ mappingSuggestions' = run.suggestions
  /\ usedQlikFields' = run.used

\* One iteration of the forEach of Phase 1; after the last column Phase 2
\* follows.
Phase1Step ==
  /\ pc = "phase1"
  /\ idx <= Len(fileColumns.items)
  /\ Commit(Phase1Column(Run, fileColumns.items[idx], qlikFields.items))
  /\ IF idx < Len(fileColumns.items)
     THEN idx' = idx + 1 /\ pc' = pc
     ELSE idx' = 1 /\ pc' = "phase2"
  /\ UNCHANGED <<mapperVars, fileColumns, qlikFields, outcome, suggestions, validated,
                 revalidated, summarized, summary, scorer>>

\* One iteration of the forEach of Phase 2.
Phase2Step ==
  /\ pc = "phase2"
  /\ idx <= Len(fileColumns.items)
  /\ Commit(Phase2Column(Run, fileColumns.items[idx], qlikFields.items))
  /\ IF idx < Len(fileColumns.items)
     THEN idx' = idx + 1 /\ pc' = pc
     ELSE idx' = 1 /\ pc' = "phase3"
  /\ UNCHANGED <<mapperVars, fileColumns, qlikFields, outcome, suggestions, validated,
                 revalidated, summarized, summary, scorer>>

\* One iteration of the forEach of Phase 3; after the last column the
\* return statement follows.
Phase3Step ==
  /\ pc = "phase3"
  /\ idx <= Len(fileColumns.items)
  /\ Commit(Phase3Column(Run, fileColumns.items[idx], qlikFields.items))
  /\ IF idx < Len(fileColumns.items)
     THEN idx' = idx + 1 /\ pc' = pc
     ELSE idx' = 1 /\ pc' = "return"
  /\ UNCHANGED <<mapperVars, fileColumns, qlikFields, outcome, suggestions, validated,
                 revalidated, summarized, summary, scorer>>

\* return mappingSuggestions;
Return ==
  /\ pc = "return"
  /\ outcome' = Returned(mappingSuggestions)
  /\ pc' = "done"
  /\ UNCHANGED <<mapperVars, fileColumns, qlikFields, idx, mappingSuggestions,
                 usedQlikFields, suggestions, validated, revalidated,
                 summarized, summary, scorer>>

\* The caller hands the returned Assignment set to
\* validateMappingSuggestions.
Handover ==
  /\ pc = "done"
  /\ outcome.kind = "returned"
  /\ suggestions' = outcome.value
  /\ pc' = "validate"
  /\ UNCHANGED <<mapperVars, fileColumns, qlikFields, idx, mappingSuggestions,
                 usedQlikFields, outcome, validated, revalidated, summarized,
                 summary, scorer>>

\* A faulty variant of the validation: const validated = suggestions, an
\* alias in place of the copy {...suggestions}, so that every write to
\* validated is a write to the argument.
ValidateInPlace ==
  /\ pc = "validate"
  /\ validated' = validateMappingSuggestions(suggestions)
  /\ suggestions' = validated'
  /\ pc' = "validated"
  /\ UNCHANGED <<mapperVars, fileColumns, qlikFields, idx, mappingSuggestions,
                 usedQlikFields, outcome, revalidated, summarized, summary,
                 scorer>>

\* validateMappingSuggestions(suggestions) ...
Validate ==
  /\ pc = "validate"
  /\ validated' = validateMappingSuggestions(suggestions)
  /\ pc' = "validated"
  /\ UNCHANGED <<mapperVars, fileColumns, qlikFields, idx, mappingSuggestions,
                 usedQlikFields, outcome, suggestions, revalidated,
                 summarized, summary, scorer>>

\* ... and applied once more to its own result.
Revalidate ==
  /\ pc = "validated"
  /\ revalidated' = validateMappingSuggestions(validated)
  /\ pc' = "revalidated"
  /\ UNCHANGED <<mapperVars, fileColumns, qlikFields, idx, mappingSuggestions,
                 usedQlikFields, outcome, suggestions, validated, summarized,
                 summary, scorer>>

\* generateMappingSummary(mappings), called on the map as returned or on
\* the validated map.
Summarize ==
  /\ pc \in {"validate", "validated"}
  /\ summarized' = IF pc = "validate" THEN suggestions ELSE validated
  /\ summary' = generateMappingSummary(summarized')
  /\ pc' = "summarized"
  /\ UNCHANGED <<mapperVars, fileColumns, qlikFields, idx, mappingSuggestions,
                 usedQlikFields, outcome, suggestions, validated, revalidated,
                 scorer>>

Next ==
  \/ Call
  \/ Phase1Step
  \/ Phase2Step
  \/ Phase3Step
  \/ Return
  \/ Handover
  \/ Validate
  \/ Revalidate
  \/ Summarize

Spec == Init /\ [][Next]_vars

(***************************************************************************)
(* validateMappingSuggestions on any Assignment set: the column mapper     *)
(* passes its mappings state, which holds suggested entries, entries made  *)
(* by a manual selection (handleMappingChange), and unmapped entries.      *)
(***************************************************************************)
MaxEntries == 3

ValidatorKeys == <<"time", "lap_time", "name", "place">>

ValidatorFields == {TargetField("time", NoType), TargetField("name", NoType)}

\* newMappings[fileColumn] = {qlikField, confidence: 0.95, matchType:
\* "manual", reason}: an entry without an alternatives property.
ManualEntry(key, qlikField) ==
  [key |-> key, qlikField |-> qlikField, confidence |-> Pct(95),
   matchType |-> "manual", reason |-> "Manually selected by user"]

\* Stored alternatives: none, or one runner-up, which is field time scored
\* 0.5 or field name scored at the floor of 0.25 of the scorer.
AlternativeLists ==
  {<<>>,
   <<Match(TargetField("time", NoType),
           Score(Pct(50), "ultra_fuzzy", "Ultra aggressive fuzzy match"))>>,
   <<Match(TargetField("name", NoType),
           Score(Pct(25), "ultra_fuzzy", "Ultra aggressive fuzzy match"))>>}

SuggestedEntries(key) ==
  {Entry(key, field, confidence, "contains", alternatives,
         "Name contains match") :
     field \in ValidatorFields, confidence \in {Pct(90), Pct(60)},
     alternatives \in AlternativeLists}

\* Entries as Phase 3 makes them (forced confidence 0.4).
ForcedEntries(key) ==
  {Entry(key, field, Pct(40), "ultra_aggressive_force", <<>>,
         "Ultra aggressive force mapping - field assigned based on position and type") :
     field \in ValidatorFields}

EntriesFor(key) ==
  {ManualEntry(key, field) : field \in ValidatorFields}
    \cup SuggestedEntries(key)
    \cup ForcedEntries(key)
    \cup {createUltraAggressiveFallback(SourceColumn(key, NoType))}

AssignmentSets ==
  UNION {{s \in [1..n -> UNION {EntriesFor(ValidatorKeys[k]) : k \in 1..n}] :
            \A k \in 1..n : s[k].key = ValidatorKeys[k]} :
           n \in 0..MaxEntries}

ValidatorInit ==
  /\ suggestions \in AssignmentSets
  /\ pc = "validate"
  /\ fileColumns = Array(<<>>)
  /\ qlikFields = Array(<<>>)
  /\ idx = 1
  /\ mappingSuggestions = EmptyObject
  /\ usedQlikFields = {}
  /\ outcome = Pending
  /\ validated = EmptyObject
  /\ revalidated = EmptyObject
  /\ summarized = EmptyObject
  /\ summary = NoSummary
  /\ scorer = Idle
  /\ MapperUnmounted

ValidatorNext ==
  \/ Validate
  \/ Revalidate
  \/ Summarize

ValidatorSpec == ValidatorInit /\ [][ValidatorNext]_vars

\* The map handed to validateMappingSuggestions and generateMappingSummary
\* is what generateMappingSuggestions returned, or any map the column mapper
\* holds.
MappingInit == Init \/ ValidatorInit

MappingSpec == MappingInit /\ [][Next]_vars

\* One call of generateMappingSuggestions on few columns and many fields.
WideInit ==
  /\ fileColumns \in {Array(columns) : columns \in WideColumnLists}
  /\ qlikFields \in {Array(fields) : fields \in WideFieldLists}
  /\ pc = "call"
  /\ idx = 1
  /\ mappingSuggestions = EmptyObject
  /\ usedQlikFields = {}
  /\ outcome = Pending
  /\ suggestions = EmptyObject
  /\ validated = EmptyObject
  /\ revalidated = EmptyObject
  /\ summarized = EmptyObject
  /\ summary = NoSummary
  /\ scorer = Idle
  /\ MapperUnmounted

WideSpec == WideInit /\ [][Next]_vars

(***************************************************************************)
(* The scorer on its own: one call of calculateUltraAggressiveMatchScore   *)
(* on a column and a field whose names may be empty, blank, or differ in   *)
(* case.                                                                   *)
(***************************************************************************)
ScorerColumnNames == SourceNames \cup {"", " ", "Time", "m"}

ScorerFieldNames == TargetNames \cup {"", " ", "NAME", "meters", "ms"}

ScorerTypes == {NoType, "text", "numeric"}

ScorerCall(fileColumn, qlikField) ==
  [called |-> TRUE, fileColumn |-> fileColumn, qlikField |-> qlikField,
   returned |-> FALSE]

ScorerInit ==
  /\ scorer \in {ScorerCall(SourceColumn(columnName, columnType),
                             TargetField(fieldName, fieldType)) :
                    columnName \in ScorerColumnNames, columnType \in ScorerTypes,
                    fieldName \in ScorerFieldNames, fieldType \in ScorerTypes}
  /\ pc = "score"
  /\ fileColumns = Array(<<>>)
  /\ qlikFields = Array(<<>>)
  /\ idx = 1
  /\ mappingSuggestions = EmptyObject
  /\ usedQlikFields = {}
  /\ outcome = Pending
  /\ suggestions = EmptyObject
  /\ validated = EmptyObject
  /\ revalidated = EmptyObject
  /\ summarized = EmptyObject
  /\ summary = NoSummary
  /\ MapperUnmounted

\* calculateUltraAggressiveMatchScore(fileColumn, qlikField)
ScorePair ==
  /\ pc = "score"
  /\ scorer' = [scorer EXCEPT
                  !.returned = TRUE] @@
                [score |-> calculateUltraAggressiveMatchScore(scorer.fileColumn,
                                                              scorer.qlikField)]
  /\ pc' = "scored"
  /\ UNCHANGED <<mapperVars, fileColumns, qlikFields, idx, mappingSuggestions,
                 usedQlikFields, outcome, suggestions, validated, revalidated,
                 summarized, summary>>

ScorerNext == ScorePair

ScorerSpec == ScorerInit /\ [][ScorerNext]_vars

(***************************************************************************)
(* Properties.                                                             *)
(***************************************************************************)
WellFormedInput == IsArray(fileColumns) /\ IsArray(qlikFields)

ColumnNames == {fileColumns.items[i].name : i \in 1..Len(fileColumns.items)}

ColumnNameList == [i \in 1..Len(fileColumns.items) |-> fileColumns.items[i].name]

FieldNameList == [i \in 1..Len(qlikFields.items) |-> qlikFields.items[i].name]

\* generateMappingSuggestions has returned a map built by the three phases.
ReturnedFromPhases == WellFormedInput /\ outcome.kind = "returned"

MappedEntries(obj) == {i \in 1..Len(obj) : IsMapped(obj[i])}

TargetNamesOf(obj) == {obj[i].qlikField.name : i \in MappedEntries(obj)}

DistinctTargets(obj) ==
  \A i, j \in MappedEntries(obj) :
    i # j => obj[i].qlikField.name # obj[j].qlikField.name

\* C1: for well-formed input with n distinctly named columns, the returned
\* Assignment map has exactly n entries, one keyed by each column name.
C1_Totality ==
  ReturnedFromPhases =>
    /\ Len(outcome.value) = Len(fileColumns.items)
    /\ Keys(outcome.value) = ColumnNames

\* C2: in the result of validateMappingSuggestions, for any input Assignment
\* set, every two distinct entries that keep a target have different target
\* field names.
C2_UniqueAfterValidation ==
  pc \in {"validated", "revalidated"} => DistinctTargets(validated)

\* C3: during the three phases the consumed-fields set is exactly the set of
\* target names of the entries committed so far and no two entries share a
\* target (so a consumed field was never chosen again); the returned map has
\* no two columns on the same target field.
C3_ConsumedFieldsUnique ==
  /\ pc \in {"phase1", "phase2", "phase3", "return"} =>
       /\ usedQlikFields = TargetNamesOf(mappingSuggestions)
       /\ DistinctTargets(mappingSuggestions)
  /\ ReturnedFromPhases => DistinctTargets(outcome.value)

C3_Witness ==
  /\ pc = "return"
  /\ Cardinality(usedQlikFields) = 3
  /\ Len(mappingSuggestions) = 3
  /\ \E i \in 1..3 : mappingSuggestions[i].matchType = "ultra_aggressive_force"
  /\ \E i \in 1..3 : mappingSuggestions[i].matchType = "exact"

AfterPhase1 == pc = "phase2" /\ idx = 1

\* C4: a column whose name equals (case-insensitively) the name of a field,
\* and of no other field, is mapped to that field with confidence 1.0 after
\* Phase 1, whatever the order of the lists and the other columns and fields.
C4_ExactMatchPrecedence ==
  AfterPhase1 =>
    \A c \in 1..Len(fileColumns.items), f \in 1..Len(qlikFields.items) :
      ToLowerCase(fileColumns.items[c].name) = ToLowerCase(qlikFields.items[f].name)
        => /\ HasOwn(mappingSuggestions, fileColumns.items[c].name)
           /\ Get(mappingSuggestions, fileColumns.items[c].name).qlikField
                = qlikFields.items[f]
           /\ Get(mappingSuggestions, fileColumns.items[c].name).confidence
                = Pct(100)

\* C5: validating the result of validateMappingSuggestions again changes no
\* entry's target field, confidence or rationale.
C5_ValidatorIdempotent ==
  pc = "revalidated" =>
    /\ Len(revalidated) = Len(validated)
    /\ \A i \in 1..Len(validated) :
         /\ revalidated[i].key = validated[i].key
         /\ revalidated[i].qlikField = validated[i].qlikField
         /\ revalidated[i].confidence = validated[i].confidence
         /\ revalidated[i].reason = validated[i].reason

ConfidenceBounds(obj) ==
  \A i \in 1..Len(obj) :
    /\ 0 <= obj[i].confidence
    /\ obj[i].confidence <= Pct(100)
    /\ ~IsMapped(obj[i]) => obj[i].confidence \in {0, Pct(10)}

\* C6: every entry returned by generateMappingSuggestions, and every entry of
\* validateMappingSuggestions applied to it, has a confidence in [0, 1], and
\* an entry without a target has confidence 0 or the placeholder 0.1.
C6_ConfidenceBounds ==
  /\ outcome.kind = "returned" => ConfidenceBounds(outcome.value)
  /\ pc = "validated" => ConfidenceBounds(validated)

C6_Witness ==
  /\ pc = "validated"
  /\ \E i, j, k \in 1..Len(validated) :
       /\ ~IsMapped(validated[i]) /\ validated[i].confidence = Pct(10)
       /\ validated[j].confidence = Pct(100) /\ validated[j].matchType = "contains"
       /\ validated[k].confidence > Pct(50) /\ validated[k].confidence < Pct(100)

\* C7 as stated: an entry without a target always has confidence exactly 0.
C7_NoneHasZeroConfidence ==
  outcome.kind = "returned" =>
    \A i \in 1..Len(outcome.value) :
      ~IsMapped(outcome.value[i]) => outcome.value[i].confidence = 0

\* C7 amended: an entry without a target is one created in Phase 3 when no
\* field remains, and it carries the placeholder confidence 0.1.
C7_NoneHasPlaceholderConfidence ==
  outcome.kind = "returned" =>
    \A i \in 1..Len(outcome.value) :
      ~IsMapped(outcome.value[i]) =>
        /\ outcome.value[i].confidence = Pct(10)
        /\ outcome.value[i].matchType = "ultra_aggressive_null"

C7_Witness ==
  /\ pc = "done"
  /\ ReturnedFromPhases
  /\ Len(qlikFields.items) = 1
  /\ Len(outcome.value) = 2
  /\ IsMapped(outcome.value[1])
  /\ ~IsMapped(outcome.value[2])

MalformedInput == fileColumns \in Malformed \/ qlikFields \in Malformed

\* C8: when the column list or the field list is null, undefined or not an
\* array, the call returns the empty Assignment set and throws nothing.
C8_MalformedReturnsEmpty ==
  (MalformedInput /\ pc # "call") => outcome = Returned(EmptyObject)

C8_Witness ==
  /\ pc = "done"
  /\ fileColumns = NotAnArray
  /\ IsArray(qlikFields)
  /\ outcome = Returned(EmptyObject)

ScenarioC ==
  /\ WellFormedInput
  /\ \A i \in 1..Len(fileColumns.items) : fileColumns.items[i].type = NoType
  /\ \A i \in 1..Len(qlikFields.items) : qlikFields.items[i].type = NoType
  /\ ColumnNameList \in {<<"time", "lap_time">>, <<"lap_time", "time">>}
  /\ FieldNameList = <<"time">>

\* C9: with columns time and lap_time and the single field time, in either
\* order of the columns, column time ends mapped to field time and column
\* lap_time ends without a target.
C9_ScenarioC ==
  (ScenarioC /\ outcome.kind = "returned") =>
    /\ Keys(outcome.value) = {"time", "lap_time"}
    /\ IsMapped(Get(outcome.value, "time"))
    /\ Get(outcome.value, "time").qlikField.name = "time"
    /\ ~IsMapped(Get(outcome.value, "lap_time"))

ScenarioB ==
  /\ WellFormedInput
  /\ \A i \in 1..Len(fileColumns.items) : fileColumns.items[i].type = NoType
  /\ \A i \in 1..Len(qlikFields.items) : qlikFields.items[i].type = NoType
  /\ ColumnNameList = <<"athlete_name">>
  /\ FieldNameList = <<"name">>

\* C10: the single column athlete_name is mapped to the single field name
\* with kind contains or domain-synonym and a confidence in [0.7, 0.95].
C10_ScenarioB ==
  (ScenarioB /\ outcome.kind = "returned") =>
    /\ Keys(outcome.value) = {"athlete_name"}
    /\ IsMapped(Get(outcome.value, "athlete_name"))
    /\ Get(outcome.value, "athlete_name").qlikField.name = "name"
    /\ Get(outcome.value, "athlete_name").matchType
         \in {"contains", "ultra_swimming_domain"}
    /\ Get(outcome.value, "athlete_name").confidence >= Pct(70)
    /\ Get(outcome.value, "athlete_name").confidence <= Pct(95)

ScenarioD ==
  /\ WellFormedInput
  /\ \A i \in 1..Len(fileColumns.items) : fileColumns.items[i].type = NoType
  /\ \A i \in 1..Len(qlikFields.items) : qlikFields.items[i].type = NoType
  /\ ColumnNameList = <<"xyz123">>
  /\ FieldNameList = <<"qrs789">>

\* C11: the single column xyz123 is committed neither in Phase 1 nor in
\* Phase 2; Phase 3 assigns it to the single field qrs789 with the forced
\* kind and the forced confidence 0.4.
C11_ScenarioD ==
  ScenarioD =>
    /\ pc \in {"phase2", "phase3"} => mappingSuggestions = EmptyObject
    /\ outcome.kind = "returned" =>
         /\ Keys(outcome.value) = {"xyz123"}
         /\ Get(outcome.value, "xyz123").qlikField.name = "qrs789"
         /\ Get(outcome.value, "xyz123").matchType = "ultra_aggressive_force"
         /\ Get(outcome.value, "xyz123").confidence = Pct(40)

ScenarioA ==
  /\ WellFormedInput
  /\ \A i \in 1..Len(fileColumns.items) : fileColumns.items[i].type = NoType
  /\ \A i \in 1..Len(qlikFields.items) : qlikFields.items[i].type = NoType
  /\ ColumnNameList = <<"place", "name", "time">>
  /\ FieldNameList = <<"place", "name", "time">>

\* C12: with columns place, name, time and fields place, name, time the
\* returned map has one entry per column, each mapped to the field of the
\* same name with confidence 1.0 and match kind exact.
C12_ScenarioA ==
  (ScenarioA /\ outcome.kind = "returned") =>
    /\ Keys(outcome.value) = {"place", "name", "time"}
    /\ \A k \in {"place", "name", "time"} :
         /\ IsMapped(Get(outcome.value, k))
         /\ Get(outcome.value, k).qlikField.name = k
         /\ Get(outcome.value, k).confidence = Pct(100)
         /\ Get(outcome.value, k).matchType = "exact"

C12_Witness ==
  /\ ScenarioA
  /\ outcome.kind = "returned"
  /\ Len(outcome.value) = 3
  /\ Get(outcome.value, "time").matchType = "exact"

ScenarioE ==
  /\ WellFormedInput
  /\ Len(fileColumns.items) = 0
  /\ Len(qlikFields.items) > 0

ZeroSummary ==
  [totalColumns |-> 0, mappedColumns |-> 0, unmappedColumns |-> 0,
   highConfidenceColumns |-> 0, mediumConfidenceColumns |-> 0,
   lowConfidenceColumns |-> 0, averageConfidence |-> 0]

\* C13: for an empty column list and a non-empty field list the call
\* returns the empty map, and the summary of that map has every count and
\* the average confidence at 0.
C13_ScenarioE ==
  ScenarioE =>
    /\ outcome.kind = "returned" => outcome.value = EmptyObject
    /\ pc = "summarized" => summary = ZeroSummary

C13_Witness ==
  /\ ScenarioE
  /\ outcome.kind = "returned"
  /\ pc = "summarized"
  /\ summary.totalColumns = 0

\* C14: when the column name or the field name is empty, the scorer
\* returns confidence 0 with match kind none.
C14_EmptyNamesScoreNone ==
  (/\ pc = "scored"
   /\ scorer.fileColumn.name = "" \/ scorer.qlikField.name = "") =>
    /\ scorer.score.confidence = 0
    /\ scorer.score.matchType = "none"

RECURSIVE SumOfConfidences(_, _)
SumOfConfidences(obj, S) ==
  IF S = {} THEN 0
  ELSE LET i == CHOOSE j \in S : TRUE
       IN  obj[i].confidence + SumOfConfidences(obj, S \ {i})

\* C15: the summary of an Assignment set has totalColumns = mappedColumns +
\* unmappedColumns = the number of entries; high + medium + low =
\* mappedColumns; every entry without a target is counted as unmapped; and
\* averageConfidence is the mean (in whole millionths) of the confidences of
\* the mapped entries, 0 when none is mapped.
C15_SummaryArithmetic ==
  pc = "summarized" =>
    /\ summary.totalColumns = Len(summarized)
    /\ summary.totalColumns = summary.mappedColumns + summary.unmappedColumns
    /\ summary.highConfidenceColumns + summary.mediumConfidenceColumns
         + summary.lowConfidenceColumns = summary.mappedColumns
    /\ summary.unmappedColumns >=
         Cardinality({i \in 1..Len(summarized) : ~IsMapped(summarized[i])})
    /\ summary.mappedColumns = Cardinality(MappedEntries(summarized))
    /\ IF MappedEntries(summarized) = {}
       THEN summary.averageConfidence = 0
       ELSE summary.averageConfidence =
              SumOfConfidences(summarized, MappedEntries(summarized))
                \div Cardinality(MappedEntries(summarized))

C15_Witness ==
  /\ pc = "summarized"
  /\ summary.highConfidenceColumns = 1
  /\ summary.mediumConfidenceColumns = 1
  /\ summary.lowConfidenceColumns = 1

C17_ExactColumnsFirst ==
  (WellFormedInput /\ pc = "phase1") =>
    \A i \in 1..Len(mappingSuggestions) :
      \A j \in 1..Len(fileColumns.items) :
        (/\ IsMapped(mappingSuggestions[i])
         /\ fileColumns.items[j].name = mappingSuggestions[i].qlikField.name
         /\ fileColumns.items[j].name # mappingSuggestions[i].key)
          => j < idx

InPhases == pc \in {"phase1", "phase2", "phase3"}

\* The phases follow one another, each walking the columns from the first to
\* the last.
PhaseOrder ==
  /\ pc = "phase1" => pc' \in {"phase1", "phase2"}
  /\ pc = "phase2" => pc' \in {"phase2", "phase3"}
  /\ pc = "phase3" => pc' \in {"phase3", "return"}
  /\ (InPhases /\ pc' = pc) => idx' = idx + 1
  /\ (InPhases /\ pc' # pc) => idx = Len(fileColumns.items)

\* An entry, once written, is left as it is, and a step writes at most the
\* entry of the column it processes.
EntriesKept ==
  InPhases =>
    /\ \A k \in Keys(mappingSuggestions) :
         /\ HasOwn(mappingSuggestions', k)
         /\ Get(mappingSuggestions', k) = Get(mappingSuggestions, k)
    /\ Keys(mappingSuggestions') \subseteq
         Keys(mappingSuggestions) \cup {fileColumns.items[idx].name}

EveryColumnCommitted ==
  (WellFormedInput /\ pc = "return") =>
    /\ Keys(mappingSuggestions) = ColumnNames
    /\ Len(mappingSuggestions) = Len(fileColumns.items)

\* C18: the phases run one after the other over all columns, every column
\* is committed in exactly one of them, and an entry once written is never
\* changed by a later step.
C18_PhaseOrderSingleCommit ==
  /\ [][PhaseOrder /\ EntriesKept]_vars
  /\ []EveryColumnCommitted

\* The part of the statement that is about the order of the steps.
PhasesInOrderAndEntriesKept == [][PhaseOrder /\ EntriesKept]_vars

EndsWith(s, t) ==
  Len(t) <= Len(s) /\ SubSeq(s, Len(s) - Len(t) + 1, Len(s)) = t

CurrentColumnName == fileColumns.items[idx].name

BestAvailableConfidence ==
  AvailableMatches(fileColumns.items[idx], qlikFields.items,
                   usedQlikFields)[1].confidence

\* C19: a step of Phase 2 that writes an entry writes it for a column that
\* has none, whose best available candidate has a confidence above 0.2 and
\* at most 0.5; the entry has a confidence from 0.35 to 0.5 and a reason
\* marked as a Phase 2 mapping.
C19_Phase2Band ==
  [][(pc = "phase2" /\ mappingSuggestions' # mappingSuggestions) =>
       /\ ~HasOwn(mappingSuggestions, CurrentColumnName)
       /\ Keys(mappingSuggestions') =
            Keys(mappingSuggestions) \cup {CurrentColumnName}
       /\ BestAvailableConfidence > Pct(20)
       /\ BestAvailableConfidence <= Pct(50)
       /\ Get(mappingSuggestions', CurrentColumnName).confidence >= Pct(35)
       /\ Get(mappingSuggestions', CurrentColumnName).confidence <= Pct(50)
       /\ Get(mappingSuggestions', CurrentColumnName).confidence =
            Max(BestAvailableConfidence, Pct(35))
       /\ EndsWith(Get(mappingSuggestions', CurrentColumnName).reason,
                   " (Phase 2 mapping)")]_vars

C19_Witness ==
  /\ pc = "phase3"
  /\ \E i \in 1..Len(mappingSuggestions) :
       /\ EndsWith(mappingSuggestions[i].reason, " (Phase 2 mapping)")
       /\ mappingSuggestions[i].confidence > Pct(35)
       /\ mappingSuggestions[i].confidence < Pct(50)

UnconsumedFields ==
  SelectSeq(qlikFields.items, LAMBDA field : field.name \notin usedQlikFields)

\* The fields of the list whose name contains preferred name k of row p.
FieldsContaining(fields, p, k) ==
  {i \in 1..Len(fields) :
     Includes(ToLowerCase(fields[i].name), priorities[p].preferredFields[k])}

\* The preferred names, as <<row, position>>, that the column name selects
\* and that some field of the list contains.
PreferredHits(columnName, fields) ==
  {h \in UNION {{<<p, k>> : k \in 1..Len(priorities[p].preferredFields)} :
                  p \in 1..Len(priorities)} :
     /\ TestAlternation(priorities[h[1]].pattern, ToLowerCase(columnName))
     /\ FieldsContaining(fields, h[1], h[2]) # {}}

Earlier(g, h) == g[1] < h[1] \/ (g[1] = h[1] /\ g[2] <= h[2])

EarliestHit(hits) == CHOOSE h \in hits : \A g \in hits : Earlier(h, g)

LeastOf(S) == CHOOSE i \in S : \A j \in S : i <= j

ExpectedSelection(columnName, fields) ==
  IF PreferredHits(columnName, fields) = {} THEN fields[1]
  ELSE fields[LeastOf(FieldsContaining(
                fields,
                EarliestHit(PreferredHits(columnName, fields))[1],
                EarliestHit(PreferredHits(columnName, fields))[2]))]

\* What a step of Phase 3 does for a column without an entry.
Phase3Decision ==
  /\ HasOwn(mappingSuggestions', CurrentColumnName)
  /\ IF Len(UnconsumedFields) > 0
     THEN /\ Get(mappingSuggestions', CurrentColumnName).matchType =
               "ultra_aggressive_force"
          /\ Get(mappingSuggestions', CurrentColumnName).qlikField =
               ExpectedSelection(CurrentColumnName, UnconsumedFields)
          /\ Get(mappingSuggestions', CurrentColumnName).qlikField.name
               \notin usedQlikFields
     ELSE /\ ~IsMapped(Get(mappingSuggestions', CurrentColumnName))
          /\ Get(mappingSuggestions', CurrentColumnName).confidence > 0
          /\ Get(mappingSuggestions', CurrentColumnName).reason =
               "No available Qlik fields remaining - all fields have been assigned"

\* C20: a step of Phase 3 on a column without an entry gives it one: while a
\* field is unconsumed, an unconsumed field with the forced kind, chosen by
\* the priority table (earliest preferred name, then earliest field) or else
\* the first unconsumed field; when no field is unconsumed, no target, a
\* placeholder confidence above 0 and the reason of exhaustion.
C20_Phase3Selection ==
  [][(pc = "phase3" /\ ~HasOwn(mappingSuggestions, CurrentColumnName)) =>
       Phase3Decision]_vars

\* The entries validateMappingSuggestions walks, in the order it walks them.
SortedEntries(obj) == SortByConfidenceDescending(SelectSeq(obj, IsMapped))

\* The validated map and the used fields when the walk reaches entry i.
RECURSIVE ValidationStateBefore(_, _)
ValidationStateBefore(obj, i) ==
  IF i = 1 THEN [validated |-> obj, usedFields |-> {}]
  ELSE ValidateEntry(ValidationStateBefore(obj, i - 1),
                     SortedEntries(obj)[i - 1])

UsedBefore(obj, i) == ValidationStateBefore(obj, i).usedFields

\* Entry i of the walk finds its target used.
Conflicting(obj, i) ==
  SortedEntries(obj)[i].qlikField.name \in UsedBefore(obj, i)

FreeAlternativesAt(obj, i) ==
  FreeAlternatives(SortedEntries(obj)[i], UsedBefore(obj, i))

Substituted(obj, i) ==
  Conflicting(obj, i) /\ Len(FreeAlternativesAt(obj, i)) > 0

ValidatedEntry(obj, i) == Get(validated, SortedEntries(obj)[i].key)

\* C21: an entry that finds its target used and has a stored alternative
\* whose field is unused ends on the first such alternative, that field is
\* used from then on, the reason notes the substitution, and the new
\* confidence does not exceed the confidence of the alternative.
C21_SubstitutionPenalised ==
  pc = "validated" =>
    \A i \in 1..Len(SortedEntries(suggestions)) :
      Substituted(suggestions, i) =>
        /\ ValidatedEntry(suggestions, i).qlikField =
             FreeAlternativesAt(suggestions, i)[1].field
        /\ FreeAlternativesAt(suggestions, i)[1].field.name
             \in UsedBefore(suggestions, i + 1)
        /\ ValidatedEntry(suggestions, i).reason =
             "Alternative mapping (conflict resolved)"
        /\ ValidatedEntry(suggestions, i).confidence <=
             FreeAlternativesAt(suggestions, i)[1].confidence

Unresolved(obj, i) ==
  Conflicting(obj, i) /\ Len(FreeAlternativesAt(obj, i)) = 0

\* C22: an entry that finds its target used and has no free alternative
\* keeps its target, has its confidence lowered to 0.7 of it (0.25 at
\* least) and its reason marked as a conflict; the validated map has the
\* keys of the input, and every entry that had a target still has one.
C22_UnresolvedConflictKept ==
  pc \in {"validated", "revalidated"} =>
    /\ \A i \in 1..Len(SortedEntries(suggestions)) :
         Unresolved(suggestions, i) =>
           /\ ValidatedEntry(suggestions, i).qlikField =
                SortedEntries(suggestions)[i].qlikField
           /\ ValidatedEntry(suggestions, i).confidence =
                Max((SortedEntries(suggestions)[i].confidence * 7) \div 10,
                    Pct(25))
           /\ ValidatedEntry(suggestions, i).confidence <
                SortedEntries(suggestions)[i].confidence
           /\ ValidatedEntry(suggestions, i).reason =
                "Conflict detected - shared field assignment"
    /\ Len(validated) = Len(suggestions)
    /\ \A k \in 1..Len(suggestions) :
         /\ validated[k].key = suggestions[k].key
         /\ IsMapped(suggestions[k]) => IsMapped(validated[k])
    /\ pc = "revalidated" =>
         /\ Len(revalidated) = Len(validated)
         /\ \A k \in 1..Len(validated) :
              /\ revalidated[k].key = validated[k].key
              /\ IsMapped(validated[k]) => IsMapped(revalidated[k])

C22_Witness ==
  /\ pc = "validated"
  /\ \E i \in 1..Len(SortedEntries(suggestions)) :
       /\ Unresolved(suggestions, i)
       /\ "alternatives" \in DOMAIN SortedEntries(suggestions)[i]
       /\ Len(SortedEntries(suggestions)[i].alternatives) > 0
  /\ \E i \in 1..Len(SortedEntries(suggestions)) :
       /\ Unresolved(suggestions, i)
       /\ "alternatives" \notin DOMAIN SortedEntries(suggestions)[i]

Strategy(score, matchType) == [score |-> score, matchType |-> matchType]

\* The strategies of steps 2 to 10 in the order of the source, each with the
\* score it supplies on its own (0 when it does not fire).
StrategyScores(fileName, qlikName) ==
  << Strategy(IF Includes(fileName, qlikName) \/ Includes(qlikName, fileName)
              THEN Pct(95) ELSE 0, "contains"),
     Strategy(calculateUltraSwimmingMatch(fileName, qlikName),
              "ultra_swimming_domain"),
     Strategy(IF /\ Len(fileName) <= 3 /\ Len(qlikName) <= 3
                 /\ countCommonCharacters(fileName, qlikName) > 0
              THEN Pct(60) + countCommonCharacters(fileName, qlikName) * Pct(25)
              ELSE 0, "short_name_match"),
     Strategy(calculateUltraWordMatch(fileName, qlikName), "ultra_word_match"),
     Strategy(calculatePositionalMatch(fileName, qlikName), "positional"),
     Strategy(calculateAdvancedPhoneticMatch(fileName, qlikName),
              "advanced_phonetic"),
     Strategy(calculateCharacterFrequencyMatch(fileName, qlikName),
              "character_frequency"),
     Strategy(calculateLengthSimilarity(fileName, qlikName),
              "length_similarity"),
     Strategy(calculateUltraFuzzyScore(fileName, qlikName), "ultra_fuzzy") >>

HighestScore(strategies) ==
  MaxOfSet({strategies[i].score : i \in 1..Len(strategies)})

\* The kind of the earliest strategy with the highest score, none if no
\* strategy fired.
WinningKind(strategies) ==
  IF HighestScore(strategies) = 0 THEN "none"
  ELSE strategies[CHOOSE i \in 1..Len(strategies) :
                    /\ strategies[i].score = HighestScore(strategies)
                    /\ \A j \in 1..(i - 1) :
                         strategies[j].score < HighestScore(strategies)].matchType

ScoredFileName == Trim(ToLowerCase(scorer.fileColumn.name))

ScoredQlikName == Trim(ToLowerCase(scorer.qlikField.name))

\* C23: unless the pair is an exact match or gets the desperation bonus, the
\* match kind returned is the kind of the strategy with the highest score,
\* the earliest one among equal scores.
C23_KindOfWinningStrategy ==
  (/\ pc = "scored"
   /\ scorer.score.matchType \notin {"exact", "desperation_match"}) =>
    scorer.score.matchType =
      WinningKind(StrategyScores(ScoredFileName, ScoredQlikName))

CurrentColumn == fileColumns.items[idx]

\* The candidate list of the column being processed.
Candidates == findBestMatchesUltraAggressive(CurrentColumn, qlikFields.items)

FieldIndex(field) ==
  CHOOSE i \in 1..Len(qlikFields.items) : qlikFields.items[i] = field

Ranked(candidates) ==
  /\ {candidates[i].field : i \in 1..Len(candidates)} =
       {qlikFields.items[i] : i \in
          {j \in 1..Len(qlikFields.items) :
             MatchScore(CurrentColumn, qlikFields.items[j]).confidence > Pct(1)}}
  /\ \A i \in 1..Len(candidates) :
       candidates[i].confidence =
         MatchScore(CurrentColumn, candidates[i].field).confidence
  /\ \A i, j \in 1..Len(candidates) :
       i < j =>
         /\ candidates[i].confidence >= candidates[j].confidence
         /\ candidates[i].confidence = candidates[j].confidence =>
              FieldIndex(candidates[i].field) < FieldIndex(candidates[j].field)

FirstUnconsumed(candidates) ==
  candidates[LeastOf({i \in 1..Len(candidates) :
                        candidates[i].field.name \notin usedQlikFields})]

\* An entry written by the step takes the first unconsumed candidate.
BestCandidateTaken ==
  mappingSuggestions' # mappingSuggestions =>
    Get(mappingSuggestions', CurrentColumnName).qlikField =
      FirstUnconsumed(Candidates).field

\* C24: the candidate list of a column holds exactly the fields scored above
\* 0.01, by non-increasing confidence, equal confidences in the order of the
\* field list; an entry written in Phase 1 or Phase 2 takes the first
\* candidate whose field is unconsumed.
C24_CandidateRanking ==
  [][(pc \in {"phase1", "phase2"}) =>
       (Ranked(Candidates) /\ BestCandidateTaken)]_vars

C24_Witness ==
  /\ pc = "phase2"
  /\ Len(qlikFields.items) = 3
  /\ Len(Candidates) = 3
  /\ Candidates[1].confidence = Candidates[2].confidence
  /\ Candidates[2].confidence > Candidates[3].confidence
  /\ HasOwn(mappingSuggestions, CurrentColumnName)
  /\ Get(mappingSuggestions, CurrentColumnName).qlikField = Candidates[1].field
  /\ FieldIndex(Candidates[1].field) = 2
  /\ FieldIndex(Candidates[2].field) = 3

NewEntry == Get(mappingSuggestions', CurrentColumnName)

\* The alternatives of the entry a step of Phase 1 or Phase 2 writes.
AlternativesOfCommit ==
  /\ Len(NewEntry.alternatives) <= 3
  /\ \A i, j \in 1..Len(NewEntry.alternatives) :
       i < j => NewEntry.alternatives[i].confidence
                  >= NewEntry.alternatives[j].confidence
  /\ \A i \in 1..Len(NewEntry.alternatives) :
       /\ NewEntry.alternatives[i].field # NewEntry.qlikField
       /\ NewEntry.alternatives[i].field.name \notin usedQlikFields

WritesEntry == mappingSuggestions' # mappingSuggestions

AlternativesShape ==
  /\ (pc \in {"phase1", "phase2"} /\ WritesEntry) => AlternativesOfCommit
  /\ (pc = "phase3" /\ WritesEntry) => NewEntry.alternatives = <<>>

\* C25: an entry written in Phase 1 or Phase 2 holds at most 3 alternatives,
\* by non-increasing confidence, none of them its own target and none of them
\* a field consumed before the entry was written; an entry written in
\* Phase 3 holds no alternative.
C25_AlternativesShape == [][AlternativesShape]_vars

C25_Witness ==
  /\ pc = "phase3"
  /\ Len(qlikFields.items) = 5
  /\ Len(mappingSuggestions) = 2
  /\ Len(mappingSuggestions[1].alternatives) = 3
  /\ Len(mappingSuggestions[2].alternatives) = 3
  /\ mappingSuggestions[1].qlikField # mappingSuggestions[2].alternatives[1].field

\* C26: the scorer returns confidence 1.0 only for two names that are equal
\* up to case and surrounding blanks.
C26_OnlyExactIsPerfect ==
  (pc = "scored" /\ scorer.score.confidence = Pct(100)) =>
    ScoredFileName = ScoredQlikName

\* C27: the returned map has min(number of columns, number of fields)
\* entries with a target and one entry per column; an entry is without a
\* target only when every field is the target of some entry.
C27_FullCoverage ==
  ReturnedFromPhases =>
    /\ Cardinality(MappedEntries(outcome.value)) =
         Min(Len(fileColumns.items), Len(qlikFields.items))
    /\ Len(fileColumns.items) <= Len(qlikFields.items) =>
         \A c \in ColumnNames :
           HasOwn(outcome.value, c) /\ IsMapped(Get(outcome.value, c))
    /\ (\E i \in 1..Len(outcome.value) : ~IsMapped(outcome.value[i])) =>
         TargetNamesOf(outcome.value) =
           {qlikFields.items[i].name : i \in 1..Len(qlikFields.items)}

\* C28: validateMappingSuggestions applied to the map returned by
\* generateMappingSuggestions returns a map equal to it, entry by entry.
C28_ValidatorIdentityOnOutput ==
  (pc = "validated" /\ outcome.kind = "returned") =>
    /\ suggestions = outcome.value
    /\ validated = suggestions

C28_Witness ==
  /\ pc = "validated"
  /\ outcome.kind = "returned"
  /\ Len(validated) = 3
  /\ \E i \in 1..3 : ~IsMapped(validated[i])
  /\ \E i \in 1..3 : Len(validated[i].alternatives) > 0
  /\ \E i \in 1..3 : EndsWith(validated[i].reason, " (Phase 2 mapping)")

Claimants(obj, fieldName) ==
  {i \in 1..Len(obj) : IsMapped(obj[i]) /\ obj[i].qlikField.name = fieldName}

\* The entry with the highest confidence among the claimants of a field,
\* the earliest in the map among equal confidences.
StrongestClaimant(obj, fieldName) ==
  CHOOSE i \in Claimants(obj, fieldName) :
    \A j \in Claimants(obj, fieldName) :
      \/ obj[i].confidence > obj[j].confidence
      \/ (obj[i].confidence = obj[j].confidence /\ i <= j)

KeptAsItWas(i) ==
  /\ validated[i].key = suggestions[i].key
  /\ validated[i].qlikField = suggestions[i].qlikField
  /\ validated[i].confidence = suggestions[i].confidence
  /\ validated[i].reason = suggestions[i].reason

\* C29: for every field that some entry of the input has as its target, the
\* strongest claimant of the field keeps the field, its confidence and its
\* reason through validateMappingSuggestions.
C29_StrongestClaimantKept ==
  pc = "validated" =>
    \A fieldName \in TargetNamesOf(suggestions) :
      KeptAsItWas(StrongestClaimant(suggestions, fieldName))

(***************************************************************************)
(* The mapping step: handleFileUpload hands the suggestions to the column  *)
(* mapper, the user changes the mappings, handleConfirmMappings hands the  *)
(* validated mappings to the table step, which calls                       *)
(* validateMappingsForTable.                                               *)
(***************************************************************************)
MapperCols == 2

MapperFields == 2

MapperSourceNames == {"time", "lap_time", "xyz123"}

MapperTargetNames == {"time", "name"}

MapperColumnLists ==
  {[i \in DOMAIN names |-> SourceColumn(names[i], NoType)] :
     names \in DistinctSequences(MapperSourceNames, MapperCols)}

MapperFieldLists ==
  {[i \in DOMAIN names |-> TargetField(names[i], NoType)] :
     names \in DistinctSequences(MapperTargetNames, MapperFields)}

HighConfidence(suggestion) == suggestion.confidence > Pct(80)

\* autoMappings[col] = suggestion.qlikField: the value stored under the
\* column is the field object itself, whose qlikField property is undefined.
FieldAsMapping(suggestion) ==
  [key |-> suggestion.key, qlikField |-> NullField,
   name |-> suggestion.qlikField.name, type |-> suggestion.qlikField.type]

FieldsAsMappings(highConfidence) ==
  [i \in 1..Len(highConfidence) |-> FieldAsMapping(highConfidence[i])]

\* handleFileUpload: autoMappedCount >= parsed.columns.length * 0.7 sets
\* columnMappings to the high-confidence fields; otherwise it stays {}.
PrePopulatedMappings(suggestions_, columns) ==
  IF Len(SelectSeq(suggestions_, HighConfidence)) * 10 >= Len(columns) * 7
  THEN FieldsAsMappings(SelectSeq(suggestions_, HighConfidence))
  ELSE EmptyObject

AboveInitialThreshold(suggestion) ==
  IsMapped(suggestion) /\ suggestion.confidence > Pct(15)

\* The effect on [suggestions]: with no mappings yet, the suggestions above
\* 0.15 become the mappings, unless there is none.
InitialMappings(currentMappings, suggestions_) ==
  IF Len(currentMappings) = 0
  THEN SelectSeq(suggestions_, AboveInitialThreshold)
  ELSE currentMappings

\* validateAndSummarize, the effect that runs whenever mappings changes:
\* with no key in mappings both states keep their previous value.
validateAndSummarize(newMappings) ==
  IF Len(newMappings) > 0
  THEN /\ validated' = validateMappingSuggestions(newMappings)
       /\ summary' = generateMappingSummary(validated')
  ELSE UNCHANGED <<validated, summary>>

\* setMappings(newMappings) and the effect it triggers.
setMappings(newMappings) ==
  /\ mappings' = newMappings
  /\ validateAndSummarize(newMappings)

\* handleFileUpload after generateMappingSuggestions returned, and the mount
\* of the column mapper with its two effects.
Mount ==
  /\ pc = "done"
  /\ outcome.kind = "returned"
  /\ suggestions' = outcome.value
  /\ columnMappings' = PrePopulatedMappings(outcome.value, fileColumns.items)
  /\ setMappings(InitialMappings(columnMappings', outcome.value))
  /\ pc' = "mapping"
  /\ UNCHANGED <<fileColumns, qlikFields, idx, mappingSuggestions,
                 usedQlikFields, outcome, revalidated, summarized, scorer,
                 validationResult>>

\* delete obj[k]
Delete(obj, k) == SelectSeq(obj, LAMBDA entry : entry.key # k)

FieldsNamed(name) ==
  SelectSeq(qlikFields.items, LAMBDA field : field.name = name)

\* The body of handleMappingChange: "none" or an empty selection deletes the
\* column's mapping; a name that find() resolves writes a manual entry; a
\* name it does not resolve leaves the copy as it is.
ChangedMappings(fileColumn, selectedQlikField) ==
  IF selectedQlikField = "" \/ selectedQlikField = "none"
  THEN Delete(mappings, fileColumn)
  ELSE IF Len(FieldsNamed(selectedQlikField)) > 0
       THEN Put(mappings, fileColumn,
                ManualEntry(fileColumn, FieldsNamed(selectedQlikField)[1]))
       ELSE mappings

MapperUnchanged ==
  UNCHANGED <<fileColumns, qlikFields, pc, idx, mappingSuggestions,
              usedQlikFields, outcome, suggestions, revalidated, summarized,
              scorer, columnMappings, validationResult>>

handleMappingChange ==
  /\ pc = "mapping"
  /\ \E fileColumn \in ColumnNames :
       \E selectedQlikField \in MapperTargetNames \cup {"none"} :
         setMappings(ChangedMappings(fileColumn, selectedQlikField))
  /\ MapperUnchanged

AboveAutoMapThreshold(suggestion) ==
  IsMapped(suggestion) /\ suggestion.confidence > Pct(5)

handleAutoMapAll ==
  /\ pc = "mapping"
  /\ setMappings(SelectSeq(suggestions, AboveAutoMapThreshold))
  /\ MapperUnchanged

\* {...suggestion, confidence: Math.max(suggestion.confidence, 0.3),
\*  reason: suggestion.reason + " (Force mapped)"}
ForceMapped(suggestion) ==
  [suggestion EXCEPT !.confidence = Max(suggestion.confidence, Pct(30)),
                     !.reason = suggestion.reason \o " (Force mapped)"]

ForceMappings(withField) ==
  [i \in 1..Len(withField) |-> ForceMapped(withField[i])]

handleForceMapAll ==
  /\ pc = "mapping"
  /\ setMappings(ForceMappings(SelectSeq(suggestions, IsMapped)))
  /\ MapperUnchanged

handleClearAll ==
  /\ pc = "mapping"
  /\ setMappings(EmptyObject)
  /\ MapperUnchanged

\* handleConfirmMappings, then handleMappingConfirm of the parent:
\* setColumnMappings(finalMappings); setCurrentStep("table").
handleConfirmMappings ==
  /\ pc = "mapping"
  /\ summary # NoSummary
  /\ summary.mappedColumns > 0
  /\ columnMappings' = validated
  /\ pc' = "table"
  /\ UNCHANGED <<fileColumns, qlikFields, idx, mappingSuggestions,
                 usedQlikFields, outcome, suggestions, validated, revalidated,
                 summarized, summary, scorer, mappings, validationResult>>

RECURSIVE Join(_, _)
Join(strings, separator) ==
  IF Len(strings) = 0 THEN ""
  ELSE IF Len(strings) = 1 THEN strings[1]
       ELSE strings[1] \o separator \o Join(Tail(strings), separator)

\* The loop over Object.entries(mappings) that collects every field name
\* seen before.
RECURSIVE DuplicatesFrom(_, _, _, _)
DuplicatesFrom(mappings_, i, usedFields, duplicates) ==
  IF i > Len(mappings_) THEN duplicates
  ELSE IF ~IsMapped(mappings_[i])
       THEN DuplicatesFrom(mappings_, i + 1, usedFields, duplicates)
       ELSE DuplicatesFrom(
              mappings_, i + 1,
              usedFields \cup {mappings_[i].qlikField.name},
              IF mappings_[i].qlikField.name \in usedFields
              THEN Append(duplicates, mappings_[i].qlikField.name)
              ELSE duplicates)

MissingFieldWarnings(missing) ==
  [i \in 1..Len(missing) |-> "Mapping missing Qlik field"]

\* The fields of the model carry no category, so every mapped entry counts
\* as an unknown mapping.
TableWarnings(mappings_) ==
  MissingFieldWarnings(SelectSeq(mappings_, LAMBDA entry : ~IsMapped(entry)))
    \o (IF Len(SelectSeq(mappings_, IsMapped)) = 0
        THEN <<"No dimension fields mapped - table may not display properly">>
        ELSE <<>>)
    \o <<"No measure fields mapped - consider adding measures for calculations">>

TableValidation(mappings_, duplicates) ==
  [isValid |-> Len(duplicates) = 0,
   errors |-> IF Len(duplicates) > 0
              THEN <<"Duplicate Qlik field mappings: " \o Join(duplicates, ", ")>>
              ELSE <<>>,
   warnings |-> TableWarnings(mappings_),
   summary |-> [totalMappings |-> Len(mappings_),
                dimensionMappings |-> 0,
                measureMappings |-> 0,
                unknownMappings |-> Len(SelectSeq(mappings_, IsMapped))]]

validateMappingsForTable(mappings_) ==
  IF Len(mappings_) = 0
  THEN [isValid |-> FALSE,
        errors |-> <<"No column mappings defined">>,
        warnings |-> <<>>,
        summary |-> [totalMappings |-> 0, dimensionMappings |-> 0,
                     measureMappings |-> 0, unknownMappings |-> 0]]
  ELSE TableValidation(mappings_, DuplicatesFrom(mappings_, 1, {}, <<>>))

\* generateTable of the table step: with no mapping it returns at once.
generateTable ==
  /\ pc = "table"
  /\ validationResult' = IF Len(columnMappings) = 0 THEN validationResult
                         ELSE validateMappingsForTable(columnMappings)
  /\ pc' = "generated"
  /\ UNCHANGED <<fileColumns, qlikFields, idx, mappingSuggestions,
                 usedQlikFields, outcome, suggestions, validated, revalidated,
                 summarized, summary, scorer, mappings, columnMappings>>

MapperInit ==
  /\ fileColumns \in {Array(columns) : columns \in MapperColumnLists}
  /\ qlikFields \in {Array(fields) : fields \in MapperFieldLists}
  /\ pc = "call"
  /\ idx = 1
  /\ mappingSuggestions = EmptyObject
  /\ usedQlikFields = {}
  /\ outcome = Pending
  /\ suggestions = EmptyObject
  /\ validated = EmptyObject
  /\ revalidated = EmptyObject
  /\ summarized = EmptyObject
  /\ summary = NoSummary
  /\ scorer = Idle
  /\ MapperUnmounted

MapperNext ==
  \/ Call
  \/ Phase1Step
  \/ Phase2Step
  \/ Phase3Step
  \/ Return
  \/ Mount
  \/ handleMappingChange
  \/ handleAutoMapAll
  \/ handleForceMapAll
  \/ handleClearAll
  \/ handleConfirmMappings
  \/ generateTable

MapperSpec == MapperInit /\ [][MapperNext]_vars

\* C30: the mappings that handleConfirmMappings hands to the table step have
\* pairwise different target field names, and validateMappingsForTable
\* reports no duplicate-field error for them.
C30_ConfirmedMappingsAccepted ==
  pc = "generated" =>
    /\ DistinctTargets(columnMappings)
    /\ validationResult.isValid

=============================================================================
